---- MODULE Spec2Model ----
(***************************************************************************)
(* A model of rpilot/core/hardware.py: the RGB LED (LED_RGB) with its      *)
(* threaded colour series, the solenoid valve (Solenoid) and the           *)
(* continuously polled mouse wheel (Wheel).                                *)
(*                                                                         *)
(* Each device is its own state machine with its own specification         *)
(* (SpecLED, SpecSol, SpecWheel): the devices share no state.  A method    *)
(* that runs in a thread of its own is split at every access to state      *)
(* another thread can touch; purely local computation is folded into the   *)
(* step that follows it.                                                   *)
(***************************************************************************)
EXTENDS Integers, Sequences, FiniteSets, TLC

(***************************************************************************)
(* Bounds of the model.                                                    *)
(***************************************************************************)
\* threads that call the LED's public methods
NumCallers == 1
\* sequencing threads that can be alive at once
MaxTasks == 2
\* calls of the LED's public methods in one run
MaxCalls == 3
\* threading.Timer threads of timed set_color calls that can be alive at once
MaxTimers == 1
\* threads that call the solenoid's public methods
NumSolCallers == 3

(***************************************************************************)
(* LED_RGB: colours, duty cycles and the arguments the callers pass.       *)
(***************************************************************************)
\* the order in which set_color walks the channels of a colour dict
ChanOrder == <<"r", "g", "b">>

\* Python's {}: the mapping with no keys
EmptyDict == << >>

MkColor(r, g, b) == [r |-> r, g |-> g, b |-> b]

ColOff == MkColor(0, 0, 0)
ColRed == MkColor(255, 0, 0)
ColGreen == MkColor(0, 255, 0)
ColBlue == MkColor(0, 0, 255)

\* the colours callers ask for with set_color
Palette == {ColOff, ColRed}

\* the series the constructor starts when blink is true
BlinkColors == <<ColRed, ColGreen, ColBlue, ColOff>>

BlinkDuration == [kind |-> "num", val |-> 250]

\* the colour lists callers pass to color_series
SeriesColors == {<< >>, <<ColGreen>>}

\* the duration arguments callers pass to color_series: a number, a list of
\* numbers, or something that is neither
SeriesDurations ==
    {[kind |-> "num", val |-> 100],
     [kind |-> "list", val |-> <<100>>],
     [kind |-> "other", val |-> 0]}

\* flash() arguments: total duration (ms), frequency (Hz), colours
FlashDurations == {500, 1000}

FlashFrequencies == {1}

FlashColors == {<<ColRed, ColOff>>}

\* the value set_PWM_dutycycle is given for intensity v: inverted for a
\* common anode LED, direct for a common cathode one
DutyFor(common, v) == IF common = "anode" THEN 255 - v ELSE v

\* the duty cycles that show colour c
DutyOf(common, c) ==
    [r |-> DutyFor(common, c.r), g |-> DutyFor(common, c.g), b |-> DutyFor(common, c.b)]

\* colors * n_rep: the list repeated n times, empty for n <= 0
Repeat(s, n) == [i \in 1..(n * Len(s)) |-> s[((i - 1) % Len(s)) + 1]]

(***************************************************************************)
(* Python floats: the arithmetic of LED_RGB.flash                          *)
(***************************************************************************)
\* A float is kept as the bits of its significand, first bit first and
\* leading bit 1 (none for 0.0), and the power of two its last bit counts
\* for: [m |-> bits, e |-> exponent].  SignificandBits is the width of the
\* significand of a float (sys.float_info.mant_dig).
SignificandBits == 53

\* the product of a significand and an integer is computed LimbBits bits at a
\* time, so that no intermediate value leaves the integers of the checker
LimbBits == 18

\* 2^n
RECURSIVE Pow2(_)
Pow2(n) == IF n <= 0 THEN 1 ELSE 2 * Pow2(n - 1)

\* 2^k modulo den
RECURSIVE Pow2Mod(_, _)
Pow2Mod(k, den) ==
    IF k = 0 THEN 1 % den
    ELSE LET h == Pow2Mod(k \div 2, den)
         IN  (h * h * (IF k % 2 = 1 THEN 2 ELSE 1)) % den

\* the binary digits of a natural number, first digit first
RECURSIVE IntBits(_)
IntBits(n) == IF n = 0 THEN << >> ELSE Append(IntBits(n \div 2), n % 2)

\* the w last binary digits of a natural number
PadBits(n, w) == [i \in 1..w |-> (n \div Pow2(w - i)) % 2]

\* the natural number of a sequence of binary digits
RECURSIVE BitsToInt(_)
BitsToInt(bits) ==
    IF Len(bits) = 0 THEN 0
    ELSE IF Len(bits) = 1 THEN bits[1]
    ELSE LET h == Len(bits) \div 2
         IN  BitsToInt(SubSeq(bits, 1, h)) * Pow2(Len(bits) - h)
                 + BitsToInt(SubSeq(bits, h + 1, Len(bits)))

\* what is left of r/den after k binary digits after the point, for r < den
FracRem(r, den, k) == (r * Pow2Mod(k, den)) % den

\* the first k binary digits after the point of r/den, for r < den
FracBits(r, den, k) == [i \in 1..k |-> (2 * FracRem(r, den, i - 1)) \div den]

\* the zeros between the point and the first 1 of r/den, for 0 < r < den
RECURSIVE LeadZeros(_, _)
LeadZeros(r, den) == IF 2 * r >= den THEN 0 ELSE 1 + LeadZeros(2 * r, den)

\* bits plus one in the last place; a carry out of the first place makes the
\* sequence one longer
IncBits(bits) ==
    LET zeros == {i \in 1..Len(bits) : bits[i] = 0}
    IN  IF zeros = {} THEN <<1>> \o [i \in 1..Len(bits) |-> 0]
        ELSE LET z == CHOOSE i \in zeros : \A j \in zeros : j <= i
             IN  [i \in 1..Len(bits) |-> IF i < z THEN bits[i] ELSE IF i = z THEN 1 ELSE 0]

\* round to nearest, ties to even: the significand bits (leading bit 1),
\* whose last bit counts 2^e, and the flag that more non-zero digits follow,
\* cut to SignificandBits bits
RoundFloat(bits, e, sticky) ==
    IF Len(bits) <= SignificandBits THEN [m |-> bits, e |-> e]
    ELSE LET kept == SubSeq(bits, 1, SignificandBits)
             guard == bits[SignificandBits + 1]
             rest == sticky \/ \E i \in (SignificandBits + 2)..Len(bits) : bits[i] = 1
             e0 == e + (Len(bits) - SignificandBits)
             up == guard = 1 /\ (rest \/ kept[SignificandBits] = 1)
             inc == IncBits(kept)
         IN  IF ~up THEN [m |-> kept, e |-> e0]
             ELSE IF Len(inc) = SignificandBits THEN [m |-> inc, e |-> e0]
             ELSE [m |-> SubSeq(inc, 1, SignificandBits), e |-> e0 + 1]

\* float(num) / float(den) for natural numbers num and den > 0
FloatDiv(num, den) ==
    LET ip == IntBits(num \div den)
        r == num % den
    IN  IF num = 0 THEN [m |-> << >>, e |-> 0]
        ELSE IF ip # << >>
        THEN LET k == SignificandBits + 1 - Len(ip)
             IN  RoundFloat(ip \o FracBits(r, den, k), -k, FracRem(r, den, k) # 0)
        ELSE LET z == LeadZeros(r, den)
                 k == z + SignificandBits + 1
             IN  RoundFloat(SubSeq(FracBits(r, den, k), z + 1, k), -k, FracRem(r, den, k) # 0)

\* the j-th group of LimbBits digits of bits, counted from the last digit
Limb(bits, j) ==
    LET lo == Len(bits) - j * LimbBits + 1
    IN  BitsToInt(SubSeq(bits, IF lo < 1 THEN 1 ELSE lo, Len(bits) - (j - 1) * LimbBits))

\* what the groups below the j-th carry into it when bits is multiplied by c
RECURSIVE MulCarry(_, _, _)
MulCarry(bits, c, j) ==
    IF j = 1 THEN 0
    ELSE (Limb(bits, j - 1) * c + MulCarry(bits, c, j - 1)) \div Pow2(LimbBits)

\* the digits of c times the number whose digits are bits (leading bit 1)
MulBits(bits, c) ==
    LET n == (Len(bits) + LimbBits - 1) \div LimbBits
        top == IntBits(Limb(bits, n) * c + MulCarry(bits, c, n))
        low(j) == PadBits((Limb(bits, j) * c + MulCarry(bits, c, j)) % Pow2(LimbBits), LimbBits)
    IN  [i \in 1..(Len(top) + (n - 1) * LimbBits) |->
            IF i <= Len(top) THEN top[i]
            ELSE low(n - 1 - ((i - Len(top) - 1) \div LimbBits))[((i - Len(top) - 1) % LimbBits) + 1]]

\* x * float(c) for a float x and a natural number c > 0
FloatMulInt(x, c) ==
    IF x.m = << >> THEN x
    ELSE RoundFloat(MulBits(x.m, c), x.e, FALSE)

\* int(x): the digits before the point
FloatToInt(x) ==
    IF x.e >= 0 THEN BitsToInt(x.m) * Pow2(x.e)
    ELSE IF -x.e >= Len(x.m) THEN 0
    ELSE BitsToInt(SubSeq(x.m, 1, Len(x.m) + x.e))

\* x has no digit after the point
FloatIsWhole(x) ==
    x.e >= 0 \/ \A i \in 1..Len(x.m) : i > Len(x.m) + x.e => x.m[i] = 0

\* line 444: n_rep = int(float(duration)/1000.*float(frequency))
FlashReps(duration, frequency) ==
    FloatToInt(FloatMulInt(FloatDiv(duration, 1000), frequency))

\* line 448: single_dur = (1./frequency)*1000, a float
FlashSingle(frequency) == FloatMulInt(FloatDiv(1, frequency), 1000)

\* the duration color_series is given: a number, here with the digits before
\* its point
FlashSingleDur(frequency) == [kind |-> "num", val |-> FloatToInt(FlashSingle(frequency))]

\* lines 444-449: what flash hands to color_series; whole tells whether
\* single_dur has no digits after the point
FlashArgs(duration, frequency, colors) ==
    [colors |-> Repeat(colors, FlashReps(duration, frequency)),
     duration |-> FlashSingleDur(frequency),
     whole |-> FloatIsWhole(FlashSingle(frequency))]

Callers == 1..NumCallers

Tasks == (NumCallers + 1)..(NumCallers + MaxTasks)

Timers == (NumCallers + MaxTasks + 1)..(NumCallers + MaxTasks + MaxTimers)

Threads == Callers \cup Tasks \cup Timers

\* a thread that is in no method of the LED
IdleThread ==
    [op |-> "idle", pc |-> "idle", col |-> EmptyDict, ch |-> 0,
     colors |-> << >>, duration |-> BlinkDuration, idx |-> 0, timed |-> FALSE,
     during |-> FALSE]

\* the thread color_series starts on threaded_color_series
SeriesThread(colors, duration) ==
    [IdleThread EXCEPT !.op = "series", !.pc = "clear",
                       !.colors = colors, !.duration = duration]

VARIABLES
    common,        \* LED_RGB.common
    duty,          \* the PWM duty cycle pigpio holds for each channel's pin
    flash_block,   \* LED_RGB.flash_block: set = idle, clear = in a series
    stored_color,  \* LED_RGB.stored_color
    led_pig,       \* LED_RGB.pig: "connected" or "stopped"
    th,            \* per thread: the LED method it is in and where
    calls,         \* the number of calls of the LED's public methods so far
    lastReq,       \* history: the colour of the last set_color request since the run began
    reqDuring,     \* history: a set_color request was made (or in flight) since the run began
    preSeq,        \* history: the duty cycles when the run began
    seqDone,       \* history: a series has run to its end since the run began
    sol_out,       \* the level pigpio holds for the solenoid's pin
    sol_pig,       \* Solenoid.pig: "connected" or "stopped"
    sol_th,        \* per thread: where it is in Solenoid.open / release
    sol_result,    \* history: per thread, how its last open() ended
    w_mode,        \* Wheel.mode
    w_thresh,      \* Wheel.thresh
    w_thresh_type, \* Wheel.thresh_type
    w_thresh_val,  \* Wheel.thresh_val: a number, or the array l_measure makes for 'steady'
    measure_evt,   \* the flag of the Event Wheel.measure_evt
    quit_evt,      \* the flag of the Event Wheel.quit_evt
    w_gpio_trig,   \* Wheel.gpio_trig
    w_pig,         \* Wheel.pig: "none" without gpio_trig, else "connected" or "stopped"
    w_pc,          \* where the polling thread is in _record
    w_move,        \* _record's move: the batch read last
    w_moves,       \* _record's moves: the batches read since the last report
    w_upd,         \* check_thresh's thresh_update
    w_last_update, \* _record's last_update
    now,           \* time.time(), in ticks
    w_sent,        \* the CONTINUOUS messages handed to node.send, in order
    w_pulses,      \* the pins handed to pig.gpio_trigger, in order
    l_pc,          \* where the listener thread is in l_measure / l_stop
    l_value,       \* the value of the message the listener is handling
    l_bogus,       \* history: the MEASURE being handled named a mode that is not in MODES
    w_reads,       \* the number of batches read so far
    w_msgs,        \* the number of messages and release() calls so far
    w_armedOnce,   \* history: an l_measure has armed the wheel
    w_firesSinceArm, \* history: the thresh_trig calls since the last arming
    w_readArmed,   \* history: measure_evt's flag when this batch was read
    w_sumSinceArm, \* history: the sum of the magnitudes of the batches read and evaluated since the last arming
    w_evalArmed,   \* history: measure_evt's flag when line 724 tested it for this batch
    w_cleared,     \* history: l_clear ran and no l_measure has armed since
    w_readCleared, \* history: w_cleared when this batch was read
    w_iterAfterStop, \* history: the loop went into an iteration with quit_evt's flag clear
    w_lateSend,    \* history: a message was sent in an iteration begun after the stop
    w_total,       \* history: per axis, the sum of the values of all moves read so far
    bb_event,      \* Beambreak.event is an Event (not None)
    bb_trigger_ud, \* Beambreak.trigger_ud, as the key of TRIGGER_MAP
    bb_pig,        \* Beambreak.pig: "connected" or "stopped"
    bb_callbacks,  \* Beambreak.callbacks: the handles kept, in order
    bb_handles,    \* every handle pig.callback has returned: its function and edge
    bb_live,       \* the handles pigpio holds registered and calls on an edge
    bb_pc,         \* where the calling thread is in assign_cb / clear_cb
    bb_call,       \* the call the thread is in, with its arguments
    bb_i,          \* clear_cb's position in its loop over callbacks
    bb_calls,      \* the number of calls of the beambreak's methods so far
    bb_fires,      \* the number of edges pigpio has dispatched so far
    bb_atClear,    \* history: the handles live when the clear_cb in progress began
    bb_partial,    \* history: an edge during a clear_cb called some but not all of them
    bb_last,       \* history: the last call that returned, and how
    d_pc,          \* per device: where its constructor is
    d_connected,   \* per device: pigpio.pi().connected, or "none" before pigpio.pi()
    d_cmds,        \* per device: the pigpio commands its constructor has issued
    d_error,       \* per device: the error its constructor raised, or "none"
    d_assign,      \* per device: how its last assign_cb call ended, or "none"
    d_trigger,     \* per device: its trigger attribute
    f_pc,          \* a flash call on its own: "called" or "handed"
    f_duration,    \* its duration argument (ms)
    f_frequency,   \* its frequency argument (Hz)
    f_colors,      \* its colors argument
    f_args         \* what it handed to color_series, or "none"

ledVars ==
    <<common, duty, flash_block, stored_color, led_pig, th, calls, lastReq, reqDuring, preSeq, seqDone>>

solVars == <<sol_out, sol_pig, sol_th, sol_result>>

wheelVars ==
    <<w_mode, w_thresh, w_thresh_type, w_thresh_val, measure_evt, quit_evt, w_gpio_trig,
      w_pc, w_move, w_moves, w_upd, w_last_update, now, w_sent, w_pulses, l_pc, l_value,
      l_bogus, w_reads, w_msgs, w_armedOnce, w_firesSinceArm, w_readArmed, w_sumSinceArm,
      w_evalArmed, w_cleared, w_readCleared, w_iterAfterStop, w_lateSend, w_pig,
      w_total>>

beamVars ==
    <<bb_event, bb_trigger_ud, bb_pig, bb_callbacks, bb_handles, bb_live, bb_pc, bb_call,
      bb_i, bb_calls, bb_fires, bb_atClear, bb_partial, bb_last>>

devVars == <<d_pc, d_connected, d_cmds, d_error, d_assign, d_trigger>>

flashVars == <<f_pc, f_duration, f_frequency, f_colors, f_args>>

vars == <<ledVars, solVars, wheelVars, beamVars, devVars, flashVars>>

NoReq == EmptyDict

\* a series thread that has not yet handed the LED back (flash_block.set())
InLoop(k) == th[k].op = "series" /\ th[k].pc \in {"clear", "write", "set"}

\* a series thread that has cleared flash_block and not yet set it again
Sequencing(k) == th[k].op = "series" /\ th[k].pc \in {"write", "set"}

ActiveTasks == {k \in Tasks : th[k].op = "series"}

Quiescent == \A t \in Threads : th[t].op = "idle"

\* LED_RGB.__init__: the state the constructor leaves, for the given values
\* of its common and blink arguments
InitLEDFor(commons, blinks) ==
    /\ common \in commons
    /\ duty = DutyOf(common, ColOff)
    /\ flash_block = TRUE
    /\ stored_color = EmptyDict
    /\ led_pig = "connected"
    /\ \E blink \in blinks :
         th = [t \in Threads |->
                 IF blink /\ t = NumCallers + 1
                 THEN SeriesThread(BlinkColors, BlinkDuration)
                 ELSE IdleThread]
    /\ calls = 0
    /\ lastReq = NoReq
    /\ reqDuring = FALSE
    /\ preSeq = duty
    /\ seqDone = FALSE

InitLED == InitLEDFor({"anode", "cathode"}, BOOLEAN)

(***************************************************************************)
(* LED_RGB.set_color                                                       *)
(***************************************************************************)
\* line 410: a call from outside a series made while flash_block is clear is
\* stashed instead of applied
Stashes(internal, block_set) == ~internal /\ ~block_set

\* the thread after its set_color call has returned
AfterSetColor(r) ==
    CASE r.op = "release" -> [r EXCEPT !.pc = "stop"]
      [] r.op = "series" /\ r.idx >= 1 /\ r.idx < Len(r.colors) ->
            \* time.sleep, then the next colour of the series
            [r EXCEPT !.idx = r.idx + 1, !.col = r.colors[r.idx + 1], !.pc = "write", !.ch = 1]
      [] r.op = "series" /\ r.idx >= 1 /\ r.idx >= Len(r.colors) ->
            [r EXCEPT !.pc = "set"]
      [] OTHER -> IdleThread

\* the call made after the series (stored=True) returns: the series is over
EndsSeries(r) == r.op = "series" /\ r.idx = 0

\* the thread that enters set_color(col, timed) from outside a series: the
\* colour is unpacked and flash_block tested
EntersSetColor(op, c, timed) ==
    [IdleThread EXCEPT !.op = op, !.col = c, !.ch = 1, !.timed = timed,
        !.pc = IF Stashes(FALSE, flash_block) THEN "stash" ELSE "write",
        !.during = \E k \in Tasks : Sequencing(k)]

\* set_color(col, timed=...) called by thread t
SetColor(t, c, timed) ==
    /\ th[t].op = "idle"
    /\ calls < MaxCalls
    /\ timed => \E tm \in Timers : th[tm].op = "idle"
    /\ calls' = calls + 1
    /\ th' = [th EXCEPT ![t] = EntersSetColor("set_color", c, timed)]
    /\ lastReq' = c
    /\ reqDuring' = TRUE
    /\ UNCHANGED <<common, duty, flash_block, stored_color, led_pig, preSeq, seqDone>>
    /\ UNCHANGED <<solVars, wheelVars, beamVars, devVars, flashVars>>

\* line 411: self.stored_color = color; return
SetColorStash(t) ==
    /\ th[t].pc = "stash"
    /\ stored_color' = th[t].col
    /\ th' = [th EXCEPT ![t] = AfterSetColor(th[t])]
    /\ seqDone' = (seqDone \/ EndsSeries(th[t]))
    /\ UNCHANGED <<calls, common, duty, flash_block, led_pig, lastReq, reqDuring, preSeq>>
    /\ UNCHANGED <<solVars, wheelVars, beamVars, devVars, flashVars>>

\* lines 415-420: one set_PWM_dutycycle of the loop over the colour's channels;
\* on a stopped pigpio connection the call raises and ends the thread's method
SetColorWrite(t) ==
    /\ th[t].pc = "write"
    /\ IF led_pig = "stopped"
       THEN /\ th' = [th EXCEPT ![t] = IdleThread]
            /\ UNCHANGED <<duty, seqDone>>
       ELSE /\ duty' = [duty EXCEPT ![ChanOrder[th[t].ch]] =
                                  DutyFor(common, th[t].col[ChanOrder[th[t].ch]])]
            /\ IF th[t].ch < Len(ChanOrder)
               THEN /\ th' = [th EXCEPT ![t].ch = th[t].ch + 1]
                    /\ UNCHANGED seqDone
               ELSE /\ IF th[t].timed
                       THEN \* lines 423-426: start the Timer that turns the LED off
                            \E tm \in Timers :
                              /\ th[tm].op = "idle"
                              /\ \A j \in Timers : th[j].op = "idle" => tm <= j
                              /\ th' = [th EXCEPT ![t] = AfterSetColor(th[t]),
                                                  ![tm] = [IdleThread EXCEPT !.op = "timer",
                                                                             !.pc = "wait"]]
                       ELSE th' = [th EXCEPT ![t] = AfterSetColor(th[t])]
                    /\ seqDone' = (seqDone \/ EndsSeries(th[t]))
    /\ UNCHANGED <<calls, common, flash_block, stored_color, led_pig, lastReq, reqDuring, preSeq>>
    /\ UNCHANGED <<solVars, wheelVars, beamVars, devVars, flashVars>>

\* line 425: the Timer runs out and its thread calls set_color(col=[0,0,0])
TimerFires(tm) ==
    /\ th[tm].op = "timer" /\ th[tm].pc = "wait"
    /\ th' = [th EXCEPT ![tm] = EntersSetColor("set_color", ColOff, FALSE)]
    /\ lastReq' = ColOff
    /\ reqDuring' = TRUE
    /\ UNCHANGED <<calls, common, duty, flash_block, stored_color, led_pig, preSeq, seqDone>>
    /\ UNCHANGED <<solVars, wheelVars, beamVars, devVars, flashVars>>

(***************************************************************************)
(* LED_RGB.color_series, flash and threaded_color_series                   *)
(***************************************************************************)
\* the branch threaded_color_series takes on its duration argument
RunsLoop(colors, duration) ==
    \/ duration.kind = "num"
    \/ duration.kind = "list" /\ Len(colors) = Len(duration.val)

\* color_series: start a thread on threaded_color_series and return
ColorSeries(t, colors, duration) ==
    /\ th[t].op = "idle"
    /\ calls < MaxCalls
    /\ calls' = calls + 1
    /\ \E k \in Tasks :
         /\ th[k].op = "idle"
         /\ \A j \in Tasks : th[j].op = "idle" => k <= j
         /\ th' = [th EXCEPT ![k] = SeriesThread(colors, duration)]
    /\ IF ActiveTasks = {}
       THEN /\ preSeq' = duty
            /\ lastReq' = NoReq
            /\ reqDuring' = (\E c \in Callers \cup Timers : th[c].op # "idle")
            /\ seqDone' = FALSE
       ELSE UNCHANGED <<preSeq, lastReq, reqDuring, seqDone>>
    /\ UNCHANGED <<common, duty, flash_block, stored_color, led_pig>>
    /\ UNCHANGED <<solVars, wheelVars, beamVars, devVars, flashVars>>

\* flash: repeat the colours and hand them to color_series
Flash(t, duration, frequency, colors) ==
    ColorSeries(t, FlashArgs(duration, frequency, colors).colors,
                FlashArgs(duration, frequency, colors).duration)

\* lines 486-497: flash_block.clear(), then the branch on duration; the
\* else branch returns with flash_block still clear.  The durations only set
\* how long the thread sleeps and are dropped once the branch is taken
SeriesClear(k) ==
    /\ th[k].op = "series" /\ th[k].pc = "clear"
    /\ flash_block' = FALSE
    /\ th' = [th EXCEPT ![k] =
                IF ~RunsLoop(th[k].colors, th[k].duration) THEN IdleThread
                ELSE IF Len(th[k].colors) = 0
                     THEN [th[k] EXCEPT !.pc = "set", !.duration = BlinkDuration]
                ELSE [th[k] EXCEPT !.pc = "write", !.idx = 1, !.ch = 1,
                                   !.col = th[k].colors[1], !.duration = BlinkDuration]]
    /\ UNCHANGED <<calls, common, duty, stored_color, led_pig, lastReq, reqDuring, preSeq, seqDone>>
    /\ UNCHANGED <<solVars, wheelVars, beamVars, devVars, flashVars>>

\* line 498: flash_block.set()
SeriesSet(k) ==
    /\ th[k].op = "series" /\ th[k].pc = "set"
    /\ flash_block' = TRUE
    /\ th' = [th EXCEPT ![k] = [th[k] EXCEPT !.pc = "restore", !.idx = 0]]
    /\ UNCHANGED <<calls, common, duty, stored_color, led_pig, lastReq, reqDuring, preSeq, seqDone>>
    /\ UNCHANGED <<solVars, wheelVars, beamVars, devVars, flashVars>>

\* lines 501, 389-397: set_color(stored=True) reads the stash, and returns
\* quietly when there is none
SeriesRestore(k) ==
    /\ th[k].op = "series" /\ th[k].pc = "restore"
    /\ IF stored_color # EmptyDict
       THEN /\ th' = [th EXCEPT ![k] = [th[k] EXCEPT !.col = stored_color,
                                                      !.pc = "restore_clear"]]
            /\ UNCHANGED seqDone
       ELSE /\ th' = [th EXCEPT ![k] = IdleThread]
            /\ seqDone' = TRUE
    /\ UNCHANGED <<calls, common, duty, flash_block, stored_color, led_pig, lastReq, reqDuring, preSeq>>
    /\ UNCHANGED <<solVars, wheelVars, beamVars, devVars, flashVars>>

\* line 394: self.stored_color = {}
SeriesRestoreClear(k) ==
    /\ th[k].op = "series" /\ th[k].pc = "restore_clear"
    /\ stored_color' = EmptyDict
    /\ th' = [th EXCEPT ![k].pc = "check"]
    /\ UNCHANGED <<calls, common, duty, flash_block, led_pig, lastReq, reqDuring, preSeq, seqDone>>
    /\ UNCHANGED <<solVars, wheelVars, beamVars, devVars, flashVars>>

\* line 410 in the stored=True call: internal is False there too
SeriesRestoreCheck(k) ==
    /\ th[k].op = "series" /\ th[k].pc = "check"
    /\ th' = [th EXCEPT ![k] =
                [th[k] EXCEPT !.ch = 1,
                    !.pc = IF Stashes(FALSE, flash_block) THEN "stash" ELSE "write"]]
    /\ UNCHANGED <<calls, common, duty, flash_block, stored_color, led_pig, lastReq, reqDuring, preSeq, seqDone>>
    /\ UNCHANGED <<solVars, wheelVars, beamVars, devVars, flashVars>>

(***************************************************************************)
(* LED_RGB.release                                                         *)
(***************************************************************************)
\* line 370: set_color(col=[0,0,0])
Release(t) ==
    /\ th[t].op = "idle"
    /\ calls < MaxCalls
    /\ calls' = calls + 1
    /\ th' = [th EXCEPT ![t] = EntersSetColor("release", ColOff, FALSE)]
    /\ lastReq' = ColOff
    /\ reqDuring' = TRUE
    /\ UNCHANGED <<common, duty, flash_block, stored_color, led_pig, preSeq, seqDone>>
    /\ UNCHANGED <<solVars, wheelVars, beamVars, devVars, flashVars>>

\* line 371: self.pig.stop()
ReleaseStop(t) ==
    /\ th[t].op = "release" /\ th[t].pc = "stop"
    /\ led_pig' = "stopped"
    /\ th' = [th EXCEPT ![t] = IdleThread]
    /\ UNCHANGED <<calls, common, duty, flash_block, stored_color, lastReq, reqDuring, preSeq, seqDone>>
    /\ UNCHANGED <<solVars, wheelVars, beamVars, devVars, flashVars>>

NextLED ==
    \/ \E t \in Callers, c \in Palette, timed \in BOOLEAN : SetColor(t, c, timed)
    \/ \E tm \in Timers : TimerFires(tm)
    \/ \E t \in Threads : SetColorStash(t)
    \/ \E t \in Threads : SetColorWrite(t)
    \/ \E t \in Callers, cs \in SeriesColors, d \in SeriesDurations : ColorSeries(t, cs, d)
    \/ \E t \in Callers, d \in FlashDurations, f \in FlashFrequencies, cs \in FlashColors :
          Flash(t, d, f, cs)
    \/ \E k \in Tasks : SeriesClear(k)
    \/ \E k \in Tasks : SeriesSet(k)
    \/ \E k \in Tasks : SeriesRestore(k)
    \/ \E k \in Tasks : SeriesRestoreClear(k)
    \/ \E k \in Tasks : SeriesRestoreCheck(k)
    \/ \E t \in Callers : Release(t)
    \/ \E t \in Callers : ReleaseStop(t)

(***************************************************************************)
(* Solenoid                                                                *)
(***************************************************************************)
\* Solenoid.__init__'s default duration argument, in ms
SolDefaultDuration == 100

\* the duration arguments callers pass to open(): absent, numbers (in
\* seconds) and a string that is no number
OpenDurations ==
    {[kind |-> "none", val |-> 0], [kind |-> "num", val |-> 0], [kind |-> "num", val |-> 1],
     [kind |-> "num", val |-> -1], [kind |-> "str", val |-> 0]}

\* lines 589-596: the time open() sleeps, in ms
OpenSleep(d) ==
    IF d.kind = "none" \/ (d.kind = "num" /\ d.val = 0) THEN SolDefaultDuration
    ELSE IF d.kind = "num" THEN 1000 * d.val
    ELSE SolDefaultDuration

SolCallers == 1..NumSolCallers

SolIdle == [pc |-> "idle", dur |-> 0]

\* Solenoid.__init__; the pin is taken to be low before the first write
InitSol ==
    /\ sol_out = 0
    /\ sol_pig = "connected"
    /\ sol_th = [t \in SolCallers |-> SolIdle]
    /\ sol_result = [t \in SolCallers |-> "none"]

\* open(), up to self.pig.write(self.pin, 1); a write on a stopped
\* connection raises
SolOpen(t, d) ==
    /\ sol_th[t].pc = "idle"
    /\ IF sol_pig = "stopped"
       THEN /\ sol_result' = [sol_result EXCEPT ![t] = "write_raised"]
            /\ UNCHANGED <<sol_out, sol_th>>
       ELSE /\ sol_out' = 1
            /\ sol_th' = [sol_th EXCEPT ![t] = [pc |-> "sleep", dur |-> OpenSleep(d)]]
            /\ sol_result' = [sol_result EXCEPT ![t] = "none"]
    /\ UNCHANGED sol_pig
    /\ UNCHANGED <<ledVars, wheelVars, beamVars, devVars, flashVars>>

\* time.sleep(duration), which raises on a negative duration
SolSleep(t) ==
    /\ sol_th[t].pc = "sleep"
    /\ sol_th' = [sol_th EXCEPT ![t] =
                    IF sol_th[t].dur < 0 THEN SolIdle ELSE [sol_th[t] EXCEPT !.pc = "low"]]
    /\ sol_result' = [sol_result EXCEPT ![t] =
                        IF sol_th[t].dur < 0 THEN "sleep_raised" ELSE sol_result[t]]
    /\ UNCHANGED <<sol_out, sol_pig>>
    /\ UNCHANGED <<ledVars, wheelVars, beamVars, devVars, flashVars>>

\* self.pig.write(self.pin, 0)
SolLow(t) ==
    /\ sol_th[t].pc = "low"
    /\ sol_out' = IF sol_pig = "stopped" THEN sol_out ELSE 0
    /\ sol_th' = [sol_th EXCEPT ![t] = SolIdle]
    /\ sol_result' = [sol_result EXCEPT ![t] =
                        IF sol_pig = "stopped" THEN "write_raised" ELSE "returned"]
    /\ UNCHANGED sol_pig
    /\ UNCHANGED <<ledVars, wheelVars, beamVars, devVars, flashVars>>

\* Solenoid.release: self.pig.stop()
SolRelease(t) ==
    /\ sol_th[t].pc = "idle"
    /\ sol_pig' = "stopped"
    /\ UNCHANGED <<sol_out, sol_th, sol_result>>
    /\ UNCHANGED <<ledVars, wheelVars, beamVars, devVars, flashVars>>

NextSol ==
    \/ \E t \in SolCallers, d \in OpenDurations : SolOpen(t, d)
    \/ \E t \in SolCallers : SolSleep(t)
    \/ \E t \in SolCallers : SolLow(t)
    \/ \E t \in SolCallers : SolRelease(t)

(***************************************************************************)
(* Wheel                                                                   *)
(***************************************************************************)
\* batches the polling thread reads in one run
MaxReads == 2
\* messages (MEASURE, CLEAR, STOP) and release() calls in one run
MaxMsgs == 2
\* the last tick of the clock
MaxTime == 2

\* Wheel.__init__'s default thresh argument
WheelDefaultThresh == 100

\* Wheel.update_dur, 1/fs seconds, in ticks of the clock
UpdateDur == 1

MODES == {"vel_total", "steady", "dist", "timed"}

THRESH_TYPES == {"dist", "x", "y", "vel"}

\* the pins argument of a wheel made with gpio_trig: name and board number
WheelPins == <<[key |-> "L", board |-> 11], [key |-> "R", board |-> 13]>>

Ev(v, d) == [vel |-> v, dir |-> d]

\* what one mouse.read() returns: a list of events
BatchInputs ==
    {<< >>,
     <<Ev(-30, "REL_X"), Ev(0, "SYN_REPORT")>>,
     <<Ev(30, "REL_X"), Ev(40, "REL_Y")>>,
     <<Ev(120, "REL_X")>>}

\* the value of a MEASURE message: a mode or none, a thresh or none
AbsentKey == "<absent>"

NoValue == [mode |-> AbsentKey, hasThresh |-> FALSE, thresh |-> 0]

MeasureValues ==
    {NoValue} \cup
    {[mode |-> m, hasThresh |-> TRUE, thresh |-> 50] :
        m \in {AbsentKey, "dist", "steady", "vel_total", "timed", "bogus"}}

\* thresh_val as a number, and as the empty structured array of line 859
NumVal(n) == [kind |-> "num", val |-> n]

ArrayVal == [kind |-> "array", val |-> 0]

\* lines 711 and 724 test the Event object itself, not its flag: an object
\* with neither __nonzero__ nor __len__ is true
EventTruth(flag) == TRUE

\* lines 718-720: the events of a batch that are moves
MoveOf(events) == SelectSeq(events, LAMBDA e : e.dir \in {"REL_X", "REL_Y"})

\* np.sum(move['vel'][move['dir'] == d])
RECURSIVE SumDir(_, _)
SumDir(move, d) ==
    IF move = << >> THEN 0
    ELSE (IF Head(move).dir = d THEN Head(move).vel ELSE 0) + SumDir(Tail(move), d)

\* np.sqrt on the sums of squares the batches of the model give (exact there)
ISqrt(n) == CHOOSE r \in 0..n : r * r <= n /\ (r + 1) * (r + 1) > n

\* calc_move: ok is false where the code leaves distance unbound and raises
CalcMove(move, thresh_type) ==
    CASE thresh_type = "x" -> [ok |-> TRUE, val |-> SumDir(move, "REL_X")]
      [] thresh_type = "y" -> [ok |-> TRUE, val |-> SumDir(move, "REL_Y")]
      [] thresh_type = "dist" ->
            [ok |-> TRUE,
             val |-> ISqrt(SumDir(move, "REL_X") * SumDir(move, "REL_X")
                           + SumDir(move, "REL_Y") * SumDir(move, "REL_Y"))]
      [] OTHER -> [ok |-> FALSE, val |-> 0]

\* Wheel.__init__ with start=True, for the given values of its mode,
\* thresh_type and gpio_trig arguments: the polling thread is at the top of
\* its loop
InitWheelFor(modes, thresh_types, gpio_trigs) ==
    /\ w_mode \in modes
    /\ w_thresh = WheelDefaultThresh
    /\ w_thresh_type \in thresh_types
    /\ w_thresh_val = NumVal(0)
    /\ measure_evt = FALSE
    /\ quit_evt = TRUE
    /\ w_gpio_trig \in gpio_trigs
    /\ w_pig = IF w_gpio_trig THEN "connected" ELSE "none"
    /\ w_pc = "loop"
    /\ w_move = << >>
    /\ w_moves = << >>
    /\ w_upd = 0
    /\ w_last_update = 0
    /\ now = 0
    /\ w_sent = << >>
    /\ w_pulses = << >>
    /\ l_pc = "idle"
    /\ l_value = NoValue
    /\ l_bogus = FALSE
    /\ w_reads = 0
    /\ w_msgs = 0
    /\ w_armedOnce = FALSE
    /\ w_firesSinceArm = 0
    /\ w_readArmed = FALSE
    /\ w_sumSinceArm = 0
    /\ w_evalArmed = FALSE
    /\ w_cleared = FALSE
    /\ w_readCleared = FALSE
    /\ w_iterAfterStop = FALSE
    /\ w_lateSend = FALSE
    /\ w_total = [x |-> 0, y |-> 0]

InitWheel == InitWheelFor(MODES, THRESH_TYPES, BOOLEAN)

\* lines 711-721: the loop test, mouse.read() and the append to moves
WheelRead(events) ==
    /\ w_pc = "loop"
    /\ w_reads < MaxReads
    /\ IF EventTruth(quit_evt)
       THEN /\ w_pc' = "eval"
            /\ w_move' = MoveOf(events)
            /\ w_moves' = w_moves \o MoveOf(events)
            /\ w_reads' = w_reads + 1
            /\ w_readCleared' = w_cleared
            /\ w_readArmed' = measure_evt
            /\ w_iterAfterStop' = (w_iterAfterStop \/ ~quit_evt)
            /\ w_total' = [x |-> w_total.x + SumDir(MoveOf(events), "REL_X"),
                           y |-> w_total.y + SumDir(MoveOf(events), "REL_Y")]
       ELSE /\ w_pc' = "exited"
            /\ UNCHANGED <<w_move, w_moves, w_reads, w_readCleared, w_readArmed,
                           w_iterAfterStop, w_total>>
    /\ UNCHANGED <<w_mode, w_thresh, w_thresh_type, w_thresh_val, measure_evt, quit_evt,
                 w_gpio_trig, w_upd, w_last_update, now, w_sent, w_pulses, l_pc, l_value,
                 l_bogus, w_msgs, w_armedOnce, w_firesSinceArm, w_sumSinceArm, w_evalArmed,
                 w_cleared, w_lateSend, w_pig>>
    /\ UNCHANGED <<ledVars, solVars, beamVars, devVars, flashVars>>

\* check_thresh with a last branch that treats every other mode, 'timed'
\* among them, as 'vel_total'
WheelEvalTimedAsVel ==
    /\ w_pc = "eval"
    /\ w_evalArmed' = measure_evt
    /\ w_move' = IF EventTruth(measure_evt) /\ w_mode = "steady" THEN w_move ELSE << >>
    /\ IF ~EventTruth(measure_evt)
       THEN /\ w_pc' = "report"
            /\ UNCHANGED <<w_upd, w_thresh_val, w_sumSinceArm>>
       ELSE CASE w_mode = "vel_total" ->
                   /\ w_pc' = IF CalcMove(w_move, w_thresh_type).ok THEN "cmp_vel" ELSE "dead"
                   /\ w_upd' = CalcMove(w_move, w_thresh_type).val
                   /\ UNCHANGED <<w_thresh_val, w_sumSinceArm>>
              [] w_mode = "steady" ->
                   \* line 769: np.concatenate(self.thresh_val, move) raises, with
                   \* the batch still in move
                   /\ w_pc' = "dead"
                   /\ UNCHANGED <<w_upd, w_thresh_val, w_sumSinceArm>>
              [] w_mode = "dist" ->
                   IF CalcMove(w_move, w_thresh_type).ok /\ w_thresh_val.kind = "num"
                   THEN /\ w_pc' = "cmp_dist"
                        /\ w_upd' = CalcMove(w_move, w_thresh_type).val
                        /\ w_thresh_val' = NumVal(w_thresh_val.val + w_upd')
                        /\ w_sumSinceArm' = w_sumSinceArm + IF w_readArmed THEN w_upd' ELSE 0
                   ELSE /\ w_pc' = "dead"
                        /\ UNCHANGED <<w_upd, w_thresh_val, w_sumSinceArm>>
              [] OTHER ->
                   /\ w_pc' = IF CalcMove(w_move, w_thresh_type).ok THEN "cmp_vel" ELSE "dead"
                   /\ w_upd' = CalcMove(w_move, w_thresh_type).val
                   /\ UNCHANGED <<w_thresh_val, w_sumSinceArm>>
    /\ UNCHANGED <<w_mode, w_thresh, w_thresh_type, measure_evt, quit_evt, w_gpio_trig,
                 w_moves, w_last_update, now, w_sent, w_pulses, l_pc, l_value, l_bogus,
                 w_reads, w_msgs, w_armedOnce, w_firesSinceArm, w_readArmed, w_cleared,
                 w_readCleared, w_iterAfterStop, w_lateSend, w_pig, w_total>>
    /\ UNCHANGED <<ledVars, solVars, beamVars, devVars, flashVars>>

\* lines 724-725 and check_thresh up to its comparison: the test of
\* measure_evt, the branch on mode, and the update of thresh_val
WheelEval ==
    /\ w_pc = "eval"
    /\ w_evalArmed' = measure_evt
    /\ w_move' = IF EventTruth(measure_evt) /\ w_mode = "steady" THEN w_move ELSE << >>
    /\ IF ~EventTruth(measure_evt)
       THEN /\ w_pc' = "report"
            /\ UNCHANGED <<w_upd, w_thresh_val, w_sumSinceArm>>
       ELSE CASE w_mode = "vel_total" ->
                   /\ w_pc' = IF CalcMove(w_move, w_thresh_type).ok THEN "cmp_vel" ELSE "dead"
                   /\ w_upd' = CalcMove(w_move, w_thresh_type).val
                   /\ UNCHANGED <<w_thresh_val, w_sumSinceArm>>
              [] w_mode = "steady" ->
                   \* line 769: np.concatenate(self.thresh_val, move) raises, with
                   \* the batch still in move
                   /\ w_pc' = "dead"
                   /\ UNCHANGED <<w_upd, w_thresh_val, w_sumSinceArm>>
              [] w_mode = "dist" ->
                   IF CalcMove(w_move, w_thresh_type).ok /\ w_thresh_val.kind = "num"
                   THEN /\ w_pc' = "cmp_dist"
                        /\ w_upd' = CalcMove(w_move, w_thresh_type).val
                        /\ w_thresh_val' = NumVal(w_thresh_val.val + w_upd')
                        /\ w_sumSinceArm' = w_sumSinceArm + IF w_readArmed THEN w_upd' ELSE 0
                   ELSE /\ w_pc' = "dead"
                        /\ UNCHANGED <<w_upd, w_thresh_val, w_sumSinceArm>>
              [] OTHER ->
                   /\ w_pc' = "report"
                   /\ UNCHANGED <<w_upd, w_thresh_val, w_sumSinceArm>>
    /\ UNCHANGED <<w_mode, w_thresh, w_thresh_type, measure_evt, quit_evt, w_gpio_trig,
                 w_moves, w_last_update, now, w_sent, w_pulses, l_pc, l_value, l_bogus,
                 w_reads, w_msgs, w_armedOnce, w_firesSinceArm, w_readArmed, w_cleared,
                 w_readCleared, w_iterAfterStop, w_lateSend, w_pig, w_total>>
    /\ UNCHANGED <<ledVars, solVars, beamVars, devVars, flashVars>>

\* line 763
VelTrigger(update, thresh) == update > thresh

\* line 782
DistTrigger(total, thresh) == total > thresh

\* what line 782 can give: against the array a concurrent l_measure has put
\* in thresh_val the comparison is no comparison of numbers and gives either
\* answer
DistOutcomes(val, thresh) ==
    IF val.kind = "num" THEN {DistTrigger(val.val, thresh)} ELSE BOOLEAN

\* lines 763-764 and 726: 'vel_total' compares the batch with thresh; a
\* trigger calls thresh_trig
WheelCmpVel ==
    /\ w_pc = "cmp_vel"
    /\ w_upd' = 0
    /\ w_pc' = IF VelTrigger(w_upd, w_thresh) THEN "trig" ELSE "report"
    /\ w_firesSinceArm' = w_firesSinceArm + IF VelTrigger(w_upd, w_thresh) THEN 1 ELSE 0
    /\ UNCHANGED <<w_mode, w_thresh, w_thresh_type, w_thresh_val, measure_evt, quit_evt,
                 w_gpio_trig, w_move, w_moves, w_last_update, now, w_sent, w_pulses, l_pc,
                 l_value, l_bogus, w_reads, w_msgs, w_armedOnce, w_readArmed, w_sumSinceArm,
                 w_evalArmed, w_cleared, w_readCleared, w_iterAfterStop, w_lateSend, w_pig,
                 w_total>>
    /\ UNCHANGED <<ledVars, solVars, beamVars, devVars, flashVars>>

\* lines 782-783 and 726: 'dist' compares thresh_val with thresh; a trigger
\* calls thresh_trig
WheelCmpDist ==
    /\ w_pc = "cmp_dist"
    /\ w_upd' = 0
    /\ \E do_trigger \in DistOutcomes(w_thresh_val, w_thresh) :
         /\ w_pc' = IF do_trigger THEN "trig" ELSE "report"
         /\ w_firesSinceArm' = w_firesSinceArm + IF do_trigger THEN 1 ELSE 0
    /\ UNCHANGED <<w_mode, w_thresh, w_thresh_type, w_thresh_val, measure_evt, quit_evt,
                 w_gpio_trig, w_move, w_moves, w_last_update, now, w_sent, w_pulses, l_pc,
                 l_value, l_bogus, w_reads, w_msgs, w_armedOnce, w_readArmed, w_sumSinceArm,
                 w_evalArmed, w_cleared, w_readCleared, w_iterAfterStop, w_lateSend, w_pig,
                 w_total>>
    /\ UNCHANGED <<ledVars, solVars, beamVars, devVars, flashVars>>

\* thresh_trig(): with gpio_trig the loop hands gpio_trigger a key of pins,
\* a name, which pigpio cannot pack and raises on; then measure_evt.clear()
WheelTrig ==
    /\ w_pc = "trig"
    /\ IF w_gpio_trig /\ Len(WheelPins) > 0
       THEN /\ w_pulses' = Append(w_pulses, WheelPins[1].key)
            /\ w_pc' = "dead"
            /\ UNCHANGED measure_evt
       ELSE /\ measure_evt' = FALSE
            /\ w_pc' = "trig_clear"
            /\ UNCHANGED w_pulses
    /\ UNCHANGED <<w_mode, w_thresh, w_thresh_type, w_thresh_val, quit_evt, w_gpio_trig,
                 w_move, w_moves, w_upd, w_last_update, now, w_sent, l_pc, l_value, l_bogus,
                 w_reads, w_msgs, w_armedOnce, w_firesSinceArm, w_readArmed, w_sumSinceArm,
                 w_evalArmed, w_cleared, w_readCleared, w_iterAfterStop, w_lateSend, w_pig,
                 w_total>>
    /\ UNCHANGED <<ledVars, solVars, beamVars, devVars, flashVars>>

\* line 728: self.measure_evt.clear()
WheelTrigClear ==
    /\ w_pc = "trig_clear"
    /\ measure_evt' = FALSE
    /\ w_pc' = "report"
    /\ UNCHANGED <<w_mode, w_thresh, w_thresh_type, w_thresh_val, quit_evt, w_gpio_trig,
                 w_move, w_moves, w_upd, w_last_update, now, w_sent, w_pulses, l_pc, l_value,
                 l_bogus, w_reads, w_msgs, w_armedOnce, w_firesSinceArm, w_readArmed,
                 w_sumSinceArm, w_evalArmed, w_cleared, w_readCleared, w_iterAfterStop,
                 w_lateSend, w_pig, w_total>>
    /\ UNCHANGED <<ledVars, solVars, beamVars, devVars, flashVars>>

\* the report without line 743: the moves sent stay in the buffer
WheelReportKeeps ==
    /\ w_pc = "report"
    /\ w_pc' = "loop"
    /\ IF now - w_last_update > UpdateDur
       THEN /\ w_sent' = Append(w_sent, [x |-> CalcMove(w_moves, "x").val,
                                         y |-> CalcMove(w_moves, "y").val, t |-> now])
            /\ w_moves' = w_moves
            /\ w_last_update' = now
            /\ w_lateSend' = (w_lateSend \/ w_iterAfterStop)
       ELSE UNCHANGED <<w_sent, w_moves, w_last_update, w_lateSend>>
    /\ UNCHANGED <<w_mode, w_thresh, w_thresh_type, w_thresh_val, measure_evt, quit_evt,
                 w_gpio_trig, w_move, w_upd, now, w_pulses, l_pc, l_value, l_bogus, w_reads,
                 w_msgs, w_armedOnce, w_firesSinceArm, w_readArmed, w_sumSinceArm,
                 w_evalArmed, w_cleared, w_readCleared, w_iterAfterStop, w_pig, w_total>>
    /\ UNCHANGED <<ledVars, solVars, beamVars, devVars, flashVars>>

\* lines 734-745: send the summed moves when update_dur has passed
WheelReport ==
    /\ w_pc = "report"
    /\ w_pc' = "loop"
    /\ IF now - w_last_update > UpdateDur
       THEN /\ w_sent' = Append(w_sent, [x |-> CalcMove(w_moves, "x").val,
                                         y |-> CalcMove(w_moves, "y").val, t |-> now])
            /\ w_moves' = << >>
            /\ w_last_update' = now
            /\ w_lateSend' = (w_lateSend \/ w_iterAfterStop)
       ELSE UNCHANGED <<w_sent, w_moves, w_last_update, w_lateSend>>
    /\ UNCHANGED <<w_mode, w_thresh, w_thresh_type, w_thresh_val, measure_evt, quit_evt,
                 w_gpio_trig, w_move, w_upd, now, w_pulses, l_pc, l_value, l_bogus, w_reads,
                 w_msgs, w_armedOnce, w_firesSinceArm, w_readArmed, w_sumSinceArm,
                 w_evalArmed, w_cleared, w_readCleared, w_iterAfterStop, w_pig, w_total>>
    /\ UNCHANGED <<ledVars, solVars, beamVars, devVars, flashVars>>

\* time passes
Tick ==
    /\ now < MaxTime
    /\ now' = now + 1
    /\ UNCHANGED <<w_mode, w_thresh, w_thresh_type, w_thresh_val, measure_evt, quit_evt,
                 w_gpio_trig, w_pc, w_move, w_moves, w_upd, w_last_update, w_sent, w_pulses,
                 l_pc, l_value, l_bogus, w_reads, w_msgs, w_armedOnce, w_firesSinceArm,
                 w_readArmed, w_sumSinceArm, w_evalArmed, w_cleared, w_readCleared,
                 w_iterAfterStop, w_lateSend, w_pig, w_total>>
    /\ UNCHANGED <<ledVars, solVars, beamVars, devVars, flashVars>>

\* l_measure, lines 849-853: a recognised mode is taken over
LMeasure(value) ==
    /\ l_pc = "idle"
    /\ w_msgs < MaxMsgs
    /\ w_msgs' = w_msgs + 1
    /\ l_value' = value
    /\ l_bogus' = (value.mode # AbsentKey /\ value.mode \notin MODES)
    /\ l_pc' = "m_thresh"
    /\ w_mode' = IF value.mode # AbsentKey /\ value.mode \in MODES THEN value.mode ELSE w_mode
    /\ UNCHANGED <<w_thresh, w_thresh_type, w_thresh_val, measure_evt, quit_evt, w_gpio_trig,
                 w_pc, w_move, w_moves, w_upd, w_last_update, now, w_sent, w_pulses, w_reads,
                 w_armedOnce, w_firesSinceArm, w_readArmed, w_sumSinceArm, w_evalArmed,
                 w_cleared, w_readCleared, w_iterAfterStop, w_lateSend, w_pig, w_total>>
    /\ UNCHANGED <<ledVars, solVars, beamVars, devVars, flashVars>>

\* lines 855-856
LMeasureThresh ==
    /\ l_pc = "m_thresh"
    /\ l_pc' = "m_val"
    /\ l_value' = NoValue
    /\ w_thresh' = IF l_value.hasThresh THEN l_value.thresh ELSE w_thresh
    /\ UNCHANGED <<w_mode, w_thresh_type, w_thresh_val, measure_evt, quit_evt, w_gpio_trig,
                 w_pc, w_move, w_moves, w_upd, w_last_update, now, w_sent, w_pulses, l_bogus,
                 w_reads, w_msgs, w_armedOnce, w_firesSinceArm, w_readArmed, w_sumSinceArm,
                 w_evalArmed, w_cleared, w_readCleared, w_iterAfterStop, w_lateSend, w_pig,
                 w_total>>
    /\ UNCHANGED <<ledVars, solVars, beamVars, devVars, flashVars>>

\* lines 858-861
LMeasureVal ==
    /\ l_pc = "m_val"
    /\ l_pc' = "m_set"
    /\ w_thresh_val' = IF w_mode = "steady" THEN ArrayVal ELSE NumVal(0)
    /\ UNCHANGED <<w_mode, w_thresh, w_thresh_type, measure_evt, quit_evt, w_gpio_trig, w_pc,
                 w_move, w_moves, w_upd, w_last_update, now, w_sent, w_pulses, l_value,
                 l_bogus, w_reads, w_msgs, w_armedOnce, w_firesSinceArm, w_readArmed,
                 w_sumSinceArm, w_evalArmed, w_cleared, w_readCleared, w_iterAfterStop,
                 w_lateSend, w_pig, w_total>>
    /\ UNCHANGED <<ledVars, solVars, beamVars, devVars, flashVars>>

\* lines 862-864: self.measure_evt.set()
LMeasureSet ==
    /\ l_pc = "m_set"
    /\ l_pc' = "idle"
    /\ l_bogus' = FALSE
    /\ measure_evt' = TRUE
    /\ w_armedOnce' = TRUE
    /\ w_firesSinceArm' = 0
    /\ w_sumSinceArm' = 0
    /\ w_cleared' = FALSE
    /\ w_readCleared' = FALSE
    /\ w_readArmed' = FALSE
    /\ UNCHANGED <<w_mode, w_thresh, w_thresh_type, w_thresh_val, quit_evt, w_gpio_trig,
                 w_pc, w_move, w_moves, w_upd, w_last_update, now, w_sent, w_pulses, l_value,
                 w_reads, w_msgs, w_evalArmed, w_iterAfterStop, w_lateSend, w_pig, w_total>>
    /\ UNCHANGED <<ledVars, solVars, beamVars, devVars, flashVars>>

\* l_clear
LClear ==
    /\ l_pc = "idle"
    /\ w_msgs < MaxMsgs
    /\ w_msgs' = w_msgs + 1
    /\ measure_evt' = FALSE
    /\ w_cleared' = TRUE
    /\ UNCHANGED <<w_mode, w_thresh, w_thresh_type, w_thresh_val, quit_evt, w_gpio_trig,
                 w_pc, w_move, w_moves, w_upd, w_last_update, now, w_sent, w_pulses, l_pc,
                 l_value, l_bogus, w_reads, w_armedOnce, w_firesSinceArm, w_readArmed,
                 w_sumSinceArm, w_evalArmed, w_readCleared, w_iterAfterStop, w_lateSend,
                 w_pig, w_total>>
    /\ UNCHANGED <<ledVars, solVars, beamVars, devVars, flashVars>>

\* l_stop, line 888: self.measure_evt.clear()
LStop ==
    /\ l_pc = "idle"
    /\ w_msgs < MaxMsgs
    /\ w_msgs' = w_msgs + 1
    /\ measure_evt' = FALSE
    /\ l_pc' = "s_release"
    /\ UNCHANGED <<w_mode, w_thresh, w_thresh_type, w_thresh_val, quit_evt, w_gpio_trig,
                 w_pc, w_move, w_moves, w_upd, w_last_update, now, w_sent, w_pulses, l_value,
                 l_bogus, w_reads, w_armedOnce, w_firesSinceArm, w_readArmed, w_sumSinceArm,
                 w_evalArmed, w_cleared, w_readCleared, w_iterAfterStop, w_lateSend, w_pig,
                 w_total>>
    /\ UNCHANGED <<ledVars, solVars, beamVars, devVars, flashVars>>

\* l_stop, line 889: self.release()
LStopRelease ==
    /\ l_pc = "s_release"
    /\ l_pc' = "idle"
    /\ quit_evt' = FALSE
    /\ UNCHANGED <<w_mode, w_thresh, w_thresh_type, w_thresh_val, measure_evt, w_gpio_trig,
                 w_pc, w_move, w_moves, w_upd, w_last_update, now, w_sent, w_pulses, l_value,
                 l_bogus, w_reads, w_msgs, w_armedOnce, w_firesSinceArm, w_readArmed,
                 w_sumSinceArm, w_evalArmed, w_cleared, w_readCleared, w_iterAfterStop,
                 w_lateSend, w_pig, w_total>>
    /\ UNCHANGED <<ledVars, solVars, beamVars, devVars, flashVars>>

\* release() called by the owner of the wheel, lines 891-892:
\* quit_evt.clear() is all it does, pig is not touched
WheelRelease ==
    /\ w_msgs < MaxMsgs
    /\ w_msgs' = w_msgs + 1
    /\ quit_evt' = FALSE
    /\ UNCHANGED <<w_mode, w_thresh, w_thresh_type, w_thresh_val, measure_evt, w_gpio_trig,
                 w_pc, w_move, w_moves, w_upd, w_last_update, now, w_sent, w_pulses, l_pc,
                 l_value, l_bogus, w_reads, w_armedOnce, w_firesSinceArm, w_readArmed,
                 w_sumSinceArm, w_evalArmed, w_cleared, w_readCleared, w_iterAfterStop,
                 w_lateSend, w_pig, w_total>>
    /\ UNCHANGED <<ledVars, solVars, beamVars, devVars, flashVars>>

NextWheel ==
    \/ \E events \in BatchInputs : WheelRead(events)
    \/ WheelEval
    \/ WheelCmpVel
    \/ WheelCmpDist
    \/ WheelTrig
    \/ WheelTrigClear
    \/ WheelReport
    \/ Tick
    \/ \E value \in MeasureValues : LMeasure(value)
    \/ LMeasureThresh
    \/ LMeasureVal
    \/ LMeasureSet
    \/ LClear
    \/ LStop
    \/ LStopRelease
    \/ WheelRelease

(***************************************************************************)
(* Beambreak                                                               *)
(***************************************************************************)
\* calls of the beambreak's methods in one run
MaxBeamCalls == 3
\* edges pigpio dispatches in one run
MaxBeamFires == 2

\* the edges a pin can show: rising and falling
PinEdges == {"U", "D"}

\* the manual_trigger arguments callers pass to assign_cb
ManualTriggers == {"none", "B"}

\* the handles a run can make: assign_cb makes at most two
HandleIds == 1..(2 * MaxBeamCalls)

\* the thread is in no method of the beambreak
NoCall ==
    [op |-> "none", add |-> FALSE, evented |-> FALSE, manual |-> "none",
     prior |-> 0, failed |-> 0, raised |-> FALSE]

\* Beambreak.__init__, for the given values of its event and trigger_ud
\* arguments
InitBeamFor(events, edges) ==
    /\ bb_event \in events
    /\ bb_trigger_ud \in edges
    /\ bb_pig = "connected"
    /\ bb_callbacks = << >>
    /\ bb_handles = << >>
    /\ bb_live = {}
    /\ bb_pc = "idle"
    /\ bb_call = NoCall
    /\ bb_i = 0
    /\ bb_calls = 0
    /\ bb_fires = 0
    /\ bb_atClear = {}
    /\ bb_partial = FALSE
    /\ bb_last = NoCall

InitBeam == InitBeamFor(BOOLEAN, {"D", "U"})

\* pigpio calls a handle on an edge when its edge is that one or either
EdgeMatches(h, e) == bb_handles[h].edge = "B" \/ bb_handles[h].edge = e

\* lines 245-248: the edge a call registers on
EdgeOf(manual) == IF manual = "none" THEN bb_trigger_ud ELSE manual

\* assign_cb that keeps a manual_trigger in self.trigger_ud instead of a local
BeamAssignCbStoresEdge(add, evented, manual) ==
    /\ bb_pc = "idle"
    /\ bb_calls < MaxBeamCalls
    /\ bb_calls' = bb_calls + 1
    /\ bb_call' = [NoCall EXCEPT !.op = "assign_cb", !.add = add, !.evented = evented,
                                 !.manual = manual, !.prior = Len(bb_callbacks)]
    /\ IF add
       THEN /\ bb_pc' = "reg_event"
            /\ UNCHANGED <<bb_i, bb_atClear>>
       ELSE /\ bb_pc' = "clear"
            /\ bb_i' = 1
            /\ bb_atClear' = bb_live
    /\ bb_trigger_ud' = IF manual = "none" THEN bb_trigger_ud ELSE manual
    /\ UNCHANGED <<bb_event, bb_pig, bb_callbacks, bb_handles, bb_live, bb_fires, bb_partial,
                   bb_last>>
    /\ UNCHANGED <<ledVars, solVars, wheelVars, devVars, flashVars>>

\* assign_cb(callback_fn, add, evented, manual_trigger), lines 240-241: a call
\* that does not add begins with clear_cb()
BeamAssignCb(add, evented, manual) ==
    /\ bb_pc = "idle"
    /\ bb_calls < MaxBeamCalls
    /\ bb_calls' = bb_calls + 1
    /\ bb_call' = [NoCall EXCEPT !.op = "assign_cb", !.add = add, !.evented = evented,
                                 !.manual = manual, !.prior = Len(bb_callbacks)]
    /\ IF add
       THEN /\ bb_pc' = "reg_event"
            /\ UNCHANGED <<bb_i, bb_atClear>>
       ELSE /\ bb_pc' = "clear"
            /\ bb_i' = 1
            /\ bb_atClear' = bb_live
    /\ UNCHANGED <<bb_event, bb_trigger_ud, bb_pig, bb_callbacks, bb_handles, bb_live,
                   bb_fires, bb_partial, bb_last>>
    /\ UNCHANGED <<ledVars, solVars, wheelVars, devVars, flashVars>>

\* clear_cb() called on its own
BeamClearCb ==
    /\ bb_pc = "idle"
    /\ bb_calls < MaxBeamCalls
    /\ bb_calls' = bb_calls + 1
    /\ bb_call' = [NoCall EXCEPT !.op = "clear_cb", !.prior = Len(bb_callbacks)]
    /\ bb_pc' = "clear"
    /\ bb_i' = 1
    /\ bb_atClear' = bb_live
    /\ UNCHANGED <<bb_event, bb_trigger_ud, bb_pig, bb_callbacks, bb_handles, bb_live,
                   bb_fires, bb_partial, bb_last>>
    /\ UNCHANGED <<ledVars, solVars, wheelVars, devVars, flashVars>>

\* clear_cb's loop without its try/except: a failing cancel() ends the call
BeamCancelUnguarded ==
    /\ bb_pc = "clear"
    /\ bb_i <= Len(bb_callbacks)
    /\ IF bb_callbacks[bb_i] \in bb_live
       THEN /\ bb_live' = bb_live \ {bb_callbacks[bb_i]}
            /\ bb_i' = bb_i + 1
            /\ UNCHANGED <<bb_call, bb_pc, bb_last, bb_atClear>>
       ELSE /\ bb_pc' = "idle"
            /\ bb_last' = [bb_call EXCEPT !.raised = TRUE]
            /\ bb_call' = NoCall
            /\ bb_i' = 0
            /\ bb_atClear' = {}
            /\ UNCHANGED bb_live
    /\ UNCHANGED <<bb_event, bb_trigger_ud, bb_pig, bb_callbacks, bb_handles, bb_calls,
                   bb_fires, bb_partial>>
    /\ UNCHANGED <<ledVars, solVars, wheelVars, devVars, flashVars>>

\* lines 265-269: one turn of the loop; cancel() on a handle pigpio no longer
\* holds fails, and the except clause drops the error
BeamCancel ==
    /\ bb_pc = "clear"
    /\ bb_i <= Len(bb_callbacks)
    /\ bb_i' = bb_i + 1
    /\ IF bb_callbacks[bb_i] \in bb_live
       THEN /\ bb_live' = bb_live \ {bb_callbacks[bb_i]}
            /\ UNCHANGED bb_call
       ELSE /\ bb_call' = [bb_call EXCEPT !.failed = bb_call.failed + 1]
            /\ UNCHANGED bb_live
    /\ UNCHANGED <<bb_event, bb_trigger_ud, bb_pig, bb_callbacks, bb_handles, bb_pc,
                   bb_calls, bb_fires, bb_atClear, bb_partial, bb_last>>
    /\ UNCHANGED <<ledVars, solVars, wheelVars, devVars, flashVars>>

\* clear_cb without its last line: the cancelled handles stay in callbacks
BeamClearKeeps ==
    /\ bb_pc = "clear"
    /\ bb_i > Len(bb_callbacks)
    /\ bb_atClear' = {}
    /\ bb_i' = 0
    /\ IF bb_call.op = "clear_cb"
       THEN /\ bb_pc' = "idle"
            /\ bb_last' = bb_call
            /\ bb_call' = NoCall
       ELSE /\ bb_pc' = "reg_event"
            /\ UNCHANGED <<bb_last, bb_call>>
    /\ UNCHANGED <<bb_event, bb_trigger_ud, bb_pig, bb_callbacks, bb_handles, bb_live,
                   bb_calls, bb_fires, bb_partial>>
    /\ UNCHANGED <<ledVars, solVars, wheelVars, devVars, flashVars>>

\* line 270: self.callbacks = []; clear_cb returns, to its caller or into
\* assign_cb
BeamClearReset ==
    /\ bb_pc = "clear"
    /\ bb_i > Len(bb_callbacks)
    /\ bb_callbacks' = << >>
    /\ bb_atClear' = {}
    /\ bb_i' = 0
    /\ IF bb_call.op = "clear_cb"
       THEN /\ bb_pc' = "idle"
            /\ bb_last' = bb_call
            /\ bb_call' = NoCall
       ELSE /\ bb_pc' = "reg_event"
            /\ UNCHANGED <<bb_last, bb_call>>
    /\ UNCHANGED <<bb_event, bb_trigger_ud, bb_pig, bb_handles, bb_live, bb_calls,
                   bb_fires, bb_partial>>
    /\ UNCHANGED <<ledVars, solVars, wheelVars, devVars, flashVars>>

\* lines 245-256: with evented and an event, event.set is registered too;
\* with evented and no event an Exception is built and dropped.  pig.callback
\* on a stopped connection raises
BeamRegisterEvent ==
    /\ bb_pc = "reg_event"
    /\ IF bb_call.evented /\ bb_event
       THEN IF bb_pig = "stopped"
            THEN /\ bb_pc' = "idle"
                 /\ bb_last' = [bb_call EXCEPT !.raised = TRUE]
                 /\ bb_call' = NoCall
                 /\ UNCHANGED <<bb_handles, bb_live, bb_callbacks>>
            ELSE /\ bb_handles' = Append(bb_handles,
                                         [fn |-> "event.set", edge |-> EdgeOf(bb_call.manual)])
                 /\ bb_live' = bb_live \cup {Len(bb_handles) + 1}
                 /\ bb_callbacks' = Append(bb_callbacks, Len(bb_handles) + 1)
                 /\ bb_pc' = "reg_fn"
                 /\ UNCHANGED <<bb_last, bb_call>>
       ELSE /\ bb_pc' = "reg_fn"
            /\ UNCHANGED <<bb_handles, bb_live, bb_callbacks, bb_last, bb_call>>
    /\ UNCHANGED <<bb_event, bb_trigger_ud, bb_pig, bb_i, bb_calls, bb_fires, bb_atClear,
                   bb_partial>>
    /\ UNCHANGED <<ledVars, solVars, wheelVars, devVars, flashVars>>

\* lines 258-259: callback_fn is registered and its handle kept
BeamRegisterFn ==
    /\ bb_pc = "reg_fn"
    /\ bb_pc' = "idle"
    /\ bb_call' = NoCall
    /\ IF bb_pig = "stopped"
       THEN /\ bb_last' = [bb_call EXCEPT !.raised = TRUE]
            /\ UNCHANGED <<bb_handles, bb_live, bb_callbacks>>
       ELSE /\ bb_handles' = Append(bb_handles,
                                    [fn |-> "callback_fn", edge |-> EdgeOf(bb_call.manual)])
            /\ bb_live' = bb_live \cup {Len(bb_handles) + 1}
            /\ bb_callbacks' = Append(bb_callbacks, Len(bb_handles) + 1)
            /\ bb_last' = bb_call
    /\ UNCHANGED <<bb_event, bb_trigger_ud, bb_pig, bb_i, bb_calls, bb_fires, bb_atClear,
                   bb_partial>>
    /\ UNCHANGED <<ledVars, solVars, wheelVars, devVars, flashVars>>

\* Beambreak.release: self.pig.stop(), after which pigpio calls no handle
BeamRelease ==
    /\ bb_pc = "idle"
    /\ bb_calls < MaxBeamCalls
    /\ bb_calls' = bb_calls + 1
    /\ bb_pig' = "stopped"
    /\ bb_live' = {}
    /\ bb_last' = [NoCall EXCEPT !.op = "release", !.prior = Len(bb_callbacks)]
    /\ UNCHANGED <<bb_event, bb_trigger_ud, bb_callbacks, bb_handles, bb_pc, bb_call, bb_i,
                   bb_fires, bb_atClear, bb_partial>>
    /\ UNCHANGED <<ledVars, solVars, wheelVars, devVars, flashVars>>

\* the handles pigpio's dispatch thread calls on edge e
Invoked(live, e) == {h \in live : EdgeMatches(h, e)}

\* an edge on the pin: pigpio's dispatch thread calls every handle it holds
\* for that edge; it takes no lock of the beambreak's
BeamFire(e) ==
    /\ bb_pig = "connected"
    /\ bb_fires < MaxBeamFires
    /\ bb_fires' = bb_fires + 1
    /\ bb_partial' = (bb_partial \/ (/\ bb_pc = "clear"
                                     /\ Invoked(bb_live, e) # {}
                                     /\ Invoked(bb_live, e) # Invoked(bb_atClear, e)))
    /\ UNCHANGED <<bb_event, bb_trigger_ud, bb_pig, bb_callbacks, bb_handles, bb_live,
                   bb_pc, bb_call, bb_i, bb_calls, bb_atClear, bb_last>>
    /\ UNCHANGED <<ledVars, solVars, wheelVars, devVars, flashVars>>

\* a handle is cancelled from outside the beambreak's methods
BeamInvalidate(h) ==
    /\ h \in bb_live
    /\ bb_live' = bb_live \ {h}
    /\ bb_atClear' = bb_atClear \ {h}
    /\ UNCHANGED <<bb_event, bb_trigger_ud, bb_pig, bb_callbacks, bb_handles, bb_pc,
                   bb_call, bb_i, bb_calls, bb_fires, bb_partial, bb_last>>
    /\ UNCHANGED <<ledVars, solVars, wheelVars, devVars, flashVars>>

NextBeam ==
    \/ \E add \in BOOLEAN, evented \in BOOLEAN, manual \in ManualTriggers :
          BeamAssignCb(add, evented, manual)
    \/ BeamClearCb
    \/ BeamCancel
    \/ BeamClearReset
    \/ BeamRegisterEvent
    \/ BeamRegisterFn
    \/ BeamRelease
    \/ \E e \in PinEdges : BeamFire(e)
    \/ \E h \in HandleIds : BeamInvalidate(h)

(***************************************************************************)
(* Hardware: construction of the devices and the base assign_cb            *)
(***************************************************************************)
\* Hardware stands for a subclass that redefines nothing; the Wheel is the
\* one made with gpio_trig, which opens a pigpio connection
Devices == {"Hardware", "LED_RGB", "Solenoid", "Beambreak", "Wheel"}

\* the constructors that call pigpio.pi()
OpensConnection(dev) == dev # "Hardware"

\* the constructors that test pig.connected (lines 330 and 536)
ChecksConnection(dev) == dev \in {"LED_RGB", "Solenoid"}

\* the pigpio commands a constructor issues after pigpio.pi(): set_mode and
\* set_PWM_dutycycle per LED pin, set_mode for the solenoid, set_mode and
\* set_pull_up_down for the beambreak, set_mode and write per wheel pin
ConfigCmds(dev) ==
    CASE dev = "LED_RGB" -> 2 * Len(ChanOrder)
      [] dev = "Solenoid" -> 1
      [] dev = "Beambreak" -> 2
      [] dev = "Wheel" -> 2 * Len(WheelPins)
      [] OTHER -> 0

\* the classes that define an assign_cb of their own
OverridesAssignCb(dev) == dev \in {"Beambreak", "Wheel"}

\* the trigger attribute of each class
TriggerAttr(dev) == dev = "Beambreak"

\* lines 330-331 and 536-537: the Exception is built and dropped, so the test
\* raises nothing whatever pig.connected is
ConnectionCheck(connected) == "none"

\* Hardware.assign_cb, lines 154-155: the Warning is built and dropped, and
\* the call returns None for a trigger device as for any other
HardwareAssignCb(trigger) == "returned"

\* how assign_cb(fn) ends on a built device: Beambreak.assign_cb registers
\* fn, Wheel.assign_cb keeps it in trig_fn, the others run Hardware.assign_cb
AssignCbOutcome(dev, trigger) ==
    IF OverridesAssignCb(dev) THEN "returned" ELSE HardwareAssignCb(trigger)

\* no device is constructed yet; whether the subclass that Hardware stands
\* for marks itself a trigger is open
InitDevFor(triggers) ==
    /\ d_pc = [dev \in Devices |-> "unbuilt"]
    /\ d_connected = [dev \in Devices |-> "none"]
    /\ d_cmds = [dev \in Devices |-> 0]
    /\ d_error = [dev \in Devices |-> "none"]
    /\ d_assign = [dev \in Devices |-> "none"]
    /\ \E t \in triggers :
         d_trigger = [dev \in Devices |-> IF dev = "Hardware" THEN t ELSE TriggerAttr(dev)]

InitDev == InitDevFor(BOOLEAN)

\* the constructor up to pigpio.pi(), which connects or does not
DevConnect(dev, ok) ==
    /\ d_pc[dev] = "unbuilt"
    /\ IF OpensConnection(dev)
       THEN /\ d_connected' = [d_connected EXCEPT ![dev] = IF ok THEN "yes" ELSE "no"]
            /\ d_pc' = [d_pc EXCEPT ![dev] = IF ChecksConnection(dev) THEN "check" ELSE "config"]
       ELSE /\ d_pc' = [d_pc EXCEPT ![dev] = "built"]
            /\ UNCHANGED d_connected
    /\ UNCHANGED <<d_cmds, d_error, d_assign, d_trigger>>
    /\ UNCHANGED <<ledVars, solVars, wheelVars, beamVars, flashVars>>

\* the test of pig.connected
DevCheck(dev) ==
    /\ d_pc[dev] = "check"
    /\ d_error' = [d_error EXCEPT ![dev] = ConnectionCheck(d_connected[dev])]
    /\ d_pc' = [d_pc EXCEPT ![dev] =
                  IF ConnectionCheck(d_connected[dev]) = "none" THEN "config" ELSE "failed"]
    /\ UNCHANGED <<d_connected, d_cmds, d_assign, d_trigger>>
    /\ UNCHANGED <<ledVars, solVars, wheelVars, beamVars, flashVars>>

\* the next pigpio command of the constructor; on a connection that was not
\* made the command may raise
DevConfig(dev, raises) ==
    /\ d_pc[dev] = "config"
    /\ raises => d_connected[dev] = "no"
    /\ d_cmds' = [d_cmds EXCEPT ![dev] = d_cmds[dev] + 1]
    /\ IF raises
       THEN /\ d_pc' = [d_pc EXCEPT ![dev] = "failed"]
            /\ d_error' = [d_error EXCEPT ![dev] = "pigpio"]
       ELSE /\ d_pc' = [d_pc EXCEPT ![dev] =
                          IF d_cmds[dev] + 1 >= ConfigCmds(dev) THEN "built" ELSE "config"]
            /\ UNCHANGED d_error
    /\ UNCHANGED <<d_connected, d_assign, d_trigger>>
    /\ UNCHANGED <<ledVars, solVars, wheelVars, beamVars, flashVars>>

\* assign_cb(fn) on a built device
DevAssignCb(dev) ==
    /\ d_pc[dev] = "built"
    /\ d_assign[dev] = "none"
    /\ d_assign' = [d_assign EXCEPT ![dev] = AssignCbOutcome(dev, d_trigger[dev])]
    /\ UNCHANGED <<d_pc, d_connected, d_cmds, d_error, d_trigger>>
    /\ UNCHANGED <<ledVars, solVars, wheelVars, beamVars, flashVars>>

NextDev ==
    \/ \E dev \in Devices, ok \in BOOLEAN : DevConnect(dev, ok)
    \/ \E dev \in Devices : DevCheck(dev)
    \/ \E dev \in Devices, raises \in BOOLEAN : DevConfig(dev, raises)
    \/ \E dev \in Devices : DevAssignCb(dev)

(***************************************************************************)
(* LED_RGB.flash on its own: the arguments it computes                     *)
(***************************************************************************)
\* flash() durations reach MaxFlashTens * 10 ms
MaxFlashTens == 100

\* flash() total durations: every multiple of 10 ms up to MaxFlashTens tens
FlashArgDurations == {10 * k : k \in 1..MaxFlashTens}

\* flash() frequencies (Hz); each divides 1000
FlashArgFrequencies == {1, 20, 50, 100}

InitFlashFor(durations, frequencies) ==
    /\ f_pc = "called"
    /\ f_duration \in durations
    /\ f_frequency \in frequencies
    /\ f_colors \in FlashColors
    /\ f_args = "none"

InitFlash == InitFlashFor(FlashArgDurations, FlashArgFrequencies)

\* lines 444-449: flash computes n_rep, flashes and single_dur and calls
\* color_series(flashes, single_dur)
FlashCall ==
    /\ f_pc = "called"
    /\ f_args' = FlashArgs(f_duration, f_frequency, f_colors)
    /\ f_pc' = "handed"
    /\ UNCHANGED <<f_duration, f_frequency, f_colors>>
    /\ UNCHANGED <<ledVars, solVars, wheelVars, beamVars, devVars>>

NextFlash == FlashCall

(***************************************************************************)
(* Specifications                                                          *)
(***************************************************************************)
\* the devices share no state: each specification runs one device and holds
\* the others in the state their constructors' default arguments give
LedAside == InitLEDFor({"anode"}, {FALSE})

WheelAside == InitWheelFor({"vel_total"}, {"dist"}, {FALSE})

BeamAside == InitBeamFor({FALSE}, {"D"})

DevAside == InitDevFor({FALSE})

FlashAside == InitFlashFor({1000}, {20})

InitOfLED == InitLED /\ InitSol /\ WheelAside /\ BeamAside /\ DevAside /\ FlashAside

InitOfSol == LedAside /\ InitSol /\ WheelAside /\ BeamAside /\ DevAside /\ FlashAside

InitOfWheel == LedAside /\ InitSol /\ InitWheel /\ BeamAside /\ DevAside /\ FlashAside

InitOfBeam == LedAside /\ InitSol /\ WheelAside /\ InitBeam /\ DevAside /\ FlashAside

InitOfDev == LedAside /\ InitSol /\ WheelAside /\ BeamAside /\ InitDev /\ FlashAside

InitOfFlash == LedAside /\ InitSol /\ WheelAside /\ BeamAside /\ DevAside /\ InitFlash

SpecLED == InitOfLED /\ [][NextLED]_vars

SpecSol == InitOfSol /\ [][NextSol]_vars

SpecWheel == InitOfWheel /\ [][NextWheel]_vars

SpecBeam == InitOfBeam /\ [][NextBeam]_vars

SpecDev == InitOfDev /\ [][NextDev]_vars

SpecFlash == InitOfFlash /\ [][NextFlash]_vars

(***************************************************************************)
(* LED_RGB: setting a colour during a series                               *)
(***************************************************************************)
\* the LED is idle again after a series that ran to its end
SeriesOver == Quiescent /\ flash_block /\ seqDone /\ led_pig = "connected"

\* a set_color call made while a series thread held flash_block clear is
\* about to write, or is writing, the channels
WritesDuringSeries == \E t \in Callers \cup Timers : th[t].during /\ th[t].pc = "write"

\* C1: a set_color call made while a series is active never changes the
\* channel outputs, and once the series is over and the stash applied the
\* outputs show the colour of the last set_color request made during the run.
C1_StashedDuringSeriesLastWins ==
    /\ ~WritesDuringSeries
    /\ (SeriesOver /\ lastReq # NoReq) => duty = DutyOf(common, lastReq)

\* C2: whenever the device is idle and neither a series thread nor a
\* set_color call is in progress, the pending-colour slot is empty.
C2_NoStashOnIdleDevice ==
    (flash_block /\ Quiescent) => stored_color = EmptyDict

\* C3: at most one series thread runs per device at any time.
C3_AtMostOneSeriesThread == Cardinality(ActiveTasks) <= 1

\* C4: if no set_color request is made during a series, then after the
\* series the outputs show the colour the LED had right before it started.
C4_IdleColorRestored ==
    (SeriesOver /\ ~reqDuring) => duty = preSeq

\* C5: once release() has closed the pigpio connection the outputs of the
\* device are off: the LED's channels show [0,0,0] and the solenoid's pin is low.
C5_OutputsOffAfterRelease ==
    /\ led_pig = "stopped" => duty = DutyOf(common, ColOff)
    /\ sol_pig = "stopped" => sol_out = 0

\* the two halves of C1 and of C5, each on its own
C1_NeverWritesDuringSeries == ~WritesDuringSeries

C1_LastRequestShown == (SeriesOver /\ lastReq # NoReq) => duty = DutyOf(common, lastReq)

C5_LedOffAfterRelease == led_pig = "stopped" => duty = DutyOf(common, ColOff)

C5_SolenoidLowAfterRelease == sol_pig = "stopped" => sol_out = 0

(***************************************************************************)
(* Wheel: arming, firing, clearing and stopping                            *)
(***************************************************************************)
\* C6: no trigger fires for a batch evaluated while the sensor is disarmed:
\* whenever the polling thread is about to call thresh_trig, measure_evt was
\* set when the batch was evaluated.
C6_NoFireWhileDisarmed == (w_pc = "trig") => w_evalArmed

\* C7: the trigger fires at most once per arm cycle: between one MEASURE and
\* the next, check_thresh asks for at most one trigger.
C7_AtMostOneFirePerArm == w_armedOnce => w_firesSinceArm <= 1

\* C8: after l_clear has run, no batch read afterwards causes a fire until a
\* later MEASURE has set measure_evt again.
C8_NoFireAfterClear == (w_pc = "trig") => ~(w_readCleared /\ w_cleared)

\* C9: after STOP or release() the polling thread starts no further
\* iteration of its loop, and sends no CONTINUOUS message from one.
C9_LoopExitsAfterStop == ~w_iterAfterStop /\ ~w_lateSend

\* the polling thread has read and evaluated a batch of an undisturbed 'dist'
\* arm cycle, found no trigger, and the sensor is still armed
DistCycleNoFire ==
    /\ w_mode = "dist"
    /\ w_pc = "report"
    /\ w_readArmed
    /\ w_evalArmed
    /\ measure_evt
    /\ l_pc = "idle"

\* C10: armed in 'dist' mode with threshold T the trigger fires exactly once,
\* at the first batch at which the total accumulated since arming reaches or
\* exceeds T: no batch of the cycle leaves the sensor armed with a total of
\* T or more, and the cycle has at most one fire.
C10_DistFiresOnceAtThreshold ==
    /\ DistCycleNoFire => w_sumSinceArm < w_thresh
    /\ (w_armedOnce /\ w_mode = "dist") => w_firesSinceArm <= 1

\* the two halves of C10, each on its own
C10_FiresWhenTotalReachesThreshold == DistCycleNoFire => w_sumSinceArm < w_thresh

C10_DistAtMostOneFire == (w_armedOnce /\ w_mode = "dist") => w_firesSinceArm <= 1

(***************************************************************************)
(* Wheel: 'steady' mode and MEASURE messages with an unknown mode          *)
(***************************************************************************)
\* a batch read and evaluated in an undisturbed 'steady' arm cycle, whose
\* metric is below the threshold, is behind the polling thread
SteadyBatchBelow ==
    /\ w_mode = "steady"
    /\ w_pc \notin {"loop", "eval"}
    /\ w_readArmed
    /\ w_evalArmed
    /\ l_pc = "idle"
    /\ CalcMove(w_move, w_thresh_type).ok
    /\ CalcMove(w_move, w_thresh_type).val < w_thresh

\* C11: after MEASURE with mode 'steady' and threshold T the trigger fires
\* exactly once, at the first batch whose metric is below T: once such a
\* batch has been evaluated the cycle has its fire, and it has no second one.
C11_SteadyFiresOnceWhenBelow ==
    /\ SteadyBatchBelow => w_firesSinceArm >= 1
    /\ (w_armedOnce /\ w_mode = "steady" /\ l_pc = "idle") => w_firesSinceArm <= 1

\* C12: a MEASURE whose mode is not one of MODES changes nothing: no step of
\* l_measure on such a message changes the mode, the threshold, the
\* accumulator or the armed flag.
C12_UnknownModeChangesNothing ==
    [][((l_bogus \/ l_bogus') /\ l_pc' # l_pc)
          => UNCHANGED <<w_mode, w_thresh, w_thresh_val, measure_evt>>]_vars

\* the halves of C12, each on its own: the mode, and the rest
C12_UnknownModeKeepsMode ==
    [][((l_bogus \/ l_bogus') /\ l_pc' # l_pc) => UNCHANGED w_mode]_vars

C12_UnknownModeKeepsThresh ==
    [][((l_bogus \/ l_bogus') /\ l_pc' # l_pc) => UNCHANGED w_thresh]_vars

C12_UnknownModeKeepsArmedFlag ==
    [][((l_bogus \/ l_bogus') /\ l_pc' # l_pc) => UNCHANGED measure_evt]_vars

(***************************************************************************)
(* Beambreak: the registry of callbacks                                    *)
(***************************************************************************)
\* the handles in Beambreak.callbacks
HandlesKept == {bb_callbacks[i] : i \in 1..Len(bb_callbacks)}

\* the step in which assign_cb(callback_fn) returns on a connected device,
\* for a call that does not add or that follows a clear_cb, and that does
\* not ask for the event
ReplacingReturn ==
    /\ bb_pc = "reg_fn"
    /\ bb_pc' = "idle"
    /\ bb_pig = "connected"
    /\ ~bb_call.evented
    /\ ~bb_call.add \/ bb_last.op = "clear_cb"

\* C13: clear_cb() followed by assign_cb(fn), and equally assign_cb(fn) with
\* add=False, leaves exactly one handle in the registry, the live handle of
\* fn, however many handles were registered before; every earlier handle is
\* cancelled and removed.
C13_ReplaceLeavesExactlyOne ==
    [][ReplacingReturn =>
          /\ Len(bb_callbacks') = 1
          /\ bb_live' = HandlesKept'
          /\ bb_handles'[bb_callbacks'[1]].fn = "callback_fn"]_vars

\* a replacing assign_cb(fn) has returned on a device that had two handles
\* registered, and the registry holds its one live handle
C13_Witness ==
    /\ bb_pc = "idle"
    /\ bb_last.op = "assign_cb"
    /\ ~bb_last.add
    /\ ~bb_last.evented
    /\ ~bb_last.raised
    /\ bb_last.prior >= 2
    /\ Len(bb_callbacks) = 1
    /\ bb_live = HandlesKept

\* a step of the calling thread inside assign_cb(evented=True) on a device
\* made without an event
EventedWithoutEventStep ==
    /\ bb_call.op = "assign_cb"
    /\ bb_call.evented
    /\ ~bb_event
    /\ <<bb_pc, bb_i>>' # <<bb_pc, bb_i>>

\* C14: assign_cb with evented on a device made without an event raises and
\* is rejected before any side effect: no step of the call changes the
\* registry or the live registrations, and the call ends by raising.
C14_EventedWithoutEventRejected ==
    [][EventedWithoutEventStep =>
          /\ UNCHANGED <<bb_callbacks, bb_live>>
          /\ bb_pc' = "idle" => bb_last'.raised]_vars

\* C15: no edge dispatched during a clear_cb calls some but not all of the
\* handles that were live when the clear began.
C15_ClearAtomicForFirings == ~bb_partial

\* C16: clear_cb never raises to its caller and ends with an empty registry
\* and no handle left live, also when cancel() failed on some handles.
C16_ClearSwallowsCancelErrors ==
    (bb_pc = "idle" /\ bb_last.op = "clear_cb")
        => (~bb_last.raised /\ bb_callbacks = << >> /\ bb_live = {})

\* a clear_cb has returned that found two handles, on one of which cancel()
\* failed
C16_Witness ==
    /\ bb_pc = "idle"
    /\ bb_last.op = "clear_cb"
    /\ bb_last.prior >= 2
    /\ bb_last.failed >= 1
    /\ bb_last.failed < bb_last.prior
    /\ bb_callbacks = << >>

(***************************************************************************)
(* LED_RGB: a series whose durations do not match its colours              *)
(***************************************************************************)
\* thread k runs threaded_color_series on a list of durations whose length
\* differs from that of the colours
Mismatched(k) ==
    /\ th[k].op = "series"
    /\ th[k].pc = "clear"
    /\ th[k].duration.kind = "list"
    /\ Len(th[k].colors) # Len(th[k].duration.val)

\* C17: color_series called with a list of durations whose length differs
\* from that of the colours is rejected in the caller, before a background
\* thread is started: no thread ever runs threaded_color_series on such
\* arguments.
C17_MismatchedSeriesRejected == \A k \in Tasks : ~Mismatched(k)

\* the rest of C17: the device is left idle; the thread of a mismatched
\* series does not return with flash_block clear
C17_MismatchLeavesIdle ==
    [][\A k \in Tasks : (Mismatched(k) /\ th'[k].op = "idle") => flash_block']_vars

(***************************************************************************)
(* Solenoid: the duration passed to open()                                 *)
(***************************************************************************)
\* C18: whatever duration is passed to open() (none, positive, zero,
\* negative, no number), open() does not raise over it, sleeps the default
\* duration unless the override is a positive number, and leaves the pin
\* low when it returns: with the connection open and no open() in progress
\* the pin is low.
C18_OpenToleratesAnyDuration ==
    /\ \A t \in SolCallers : sol_result[t] # "sleep_raised"
    /\ \A t \in SolCallers : sol_th[t].pc = "sleep" => sol_th[t].dur > 0
    /\ (sol_pig = "connected" /\ \A t \in SolCallers : sol_th[t].pc = "idle") => sol_out = 0

\* the three parts of C18, each on its own
C18_OpenNeverRaises == \A t \in SolCallers : sol_result[t] # "sleep_raised"

C18_SleepsPositiveDuration == \A t \in SolCallers : sol_th[t].pc = "sleep" => sol_th[t].dur > 0

C18_LowWhenOpenReturns ==
    (sol_pig = "connected" /\ \A t \in SolCallers : sol_th[t].pc = "idle") => sol_out = 0

(***************************************************************************)
(* Device contract: construction and assign_cb                             *)
(***************************************************************************)
\* C19: a constructor whose pigpio.pi() made no connection fails at once
\* with an AcquisitionError: it sends no pin configuration and no write to
\* the unconnected service, and it ends in no other way than by that error.
C19_FailsFastWithoutConnection ==
    \A dev \in Devices :
        d_connected[dev] = "no" =>
            /\ d_cmds[dev] = 0
            /\ d_pc[dev] \in {"built", "failed"} => d_error[dev] = "AcquisitionError"

\* the two parts of C19, each on its own
C19_NoConfigWithoutConnection ==
    \A dev \in Devices : d_connected[dev] = "no" => d_cmds[dev] = 0

C19_SignalsAcquisitionError ==
    \A dev \in Devices :
        (d_connected[dev] = "no" /\ d_pc[dev] \in {"built", "failed"})
            => d_error[dev] = "AcquisitionError"

\* C20: assign_cb never returns normally on a device that is no trigger,
\* nor on a trigger device whose class does not define its own assign_cb.
C20_AssignCbNeverSilent ==
    \A dev \in Devices :
        d_assign[dev] = "returned" => (d_trigger[dev] /\ OverridesAssignCb(dev))

\* the two parts of C20, each on its own
C20_NonTriggerRejects ==
    \A dev \in Devices : d_assign[dev] = "returned" => d_trigger[dev]

C20_BaseOnTriggerRejects ==
    \A dev \in Devices :
        (d_assign[dev] = "returned" /\ d_trigger[dev]) => OverridesAssignCb(dev)

(***************************************************************************)
(* Device contract: release                                                *)
(***************************************************************************)
\* C21: release() called again after a release raises nothing: a release()
\* on a device whose connection is already stopped ends by its last line,
\* pig.stop(), and not by an error, and it leaves outputs and connection
\* as they were.
C21_SecondReleaseIsQuiet ==
    [][\A t \in Callers :
          (led_pig = "stopped" /\ th[t].op = "release" /\ th'[t].op # "release")
              => (th[t].pc = "stop" /\ UNCHANGED <<duty, led_pig>>)]_vars

(***************************************************************************)
(* Wheel: the connection, the polling thread and its reports               *)
(***************************************************************************)
\* C22: a wheel that opened a pigpio connection for its pulse output has it
\* closed once release() or STOP has cleared quit_evt.
C22_ConnectionClosedAfterRelease == ~quit_evt => w_pig # "connected"

\* C24: an error raised while the polling thread handles a batch does not
\* end the thread: _record is never left through an exception.
C24_PollingSurvivesErrors == w_pc # "dead"

\* the sum over the CONTINUOUS messages sent of their x (or y) value
RECURSIVE SentSum(_, _)
SentSum(sent, axis) ==
    IF sent = << >> THEN 0
    ELSE (IF axis = "x" THEN Head(sent).x ELSE Head(sent).y) + SentSum(Tail(sent), axis)

\* every move read so far is counted in exactly one message sent or is still
\* in the buffer
EachMoveCountedOnce ==
    /\ SentSum(w_sent, "x") + SumDir(w_moves, "REL_X") = w_total.x
    /\ SentSum(w_sent, "y") + SumDir(w_moves, "REL_Y") = w_total.y

\* the step that hands a CONTINUOUS message to node.send
EmitStep == Len(w_sent') = Len(w_sent) + 1

RECURSIVE SumAbsDir(_, _)
SumAbsDir(move, d) ==
    IF move = << >> THEN 0
    ELSE (IF Head(move).dir # d THEN 0
          ELSE IF Head(move).vel < 0 THEN -Head(move).vel ELSE Head(move).vel)
             + SumAbsDir(Tail(move), d)

PinKeys == {WheelPins[j].key : j \in 1..Len(WheelPins)}

\* C26: the pulses of a fire go out on pin numbers: no pin handed to
\* pig.gpio_trigger is the name of a pin, and a fire of a wheel with a pulse
\* output does not end the polling thread.
C26_PulsesOnNativePins ==
    /\ \A i \in 1..Len(w_pulses) : w_pulses[i] \notin PinKeys
    /\ (w_gpio_trig /\ w_firesSinceArm >= 1) => w_pc # "dead"

\* C29: whenever check_thresh runs, thresh_val has the shape the mode it
\* finds needs: the array of line 859 in 'steady' mode, a number in 'dist'
\* mode.
C29_AccumulatorFitsMode ==
    [][(w_pc = "eval" /\ w_pc' # "eval") =>
          /\ w_mode = "steady" => w_thresh_val.kind = "array"
          /\ w_mode = "dist" => w_thresh_val.kind = "num"]_vars

\* the two parts of C29, each on its own
C29_SteadyFindsArray ==
    [][(w_pc = "eval" /\ w_pc' # "eval" /\ w_mode = "steady")
          => w_thresh_val.kind = "array"]_vars

C29_DistFindsNumber ==
    [][(w_pc = "eval" /\ w_pc' # "eval" /\ w_mode = "dist")
          => w_thresh_val.kind = "num"]_vars

\* the step in which check_thresh runs and finds the mode 'timed'
TimedEvalStep == w_pc = "eval" /\ w_pc' # "eval" /\ w_mode = "timed"

\* the step in which l_measure takes up a MEASURE that names 'timed'
TimedMeasureStep == l_pc = "idle" /\ l_pc' = "m_thresh" /\ l_value'.mode = "timed"

\* C30: a MEASURE naming 'timed' makes 'timed' the mode; a check_thresh that
\* finds the mode 'timed' asks for no trigger, whatever the batch and the
\* threshold, goes on to the report, and leaves thresh_val as it was.
C30_TimedNeverFires ==
    [][/\ TimedMeasureStep => w_mode' = "timed"
       /\ TimedEvalStep =>
             /\ w_pc' = "report"
             /\ UNCHANGED <<w_thresh_val, w_firesSinceArm, w_pulses, measure_evt>>]_vars

\* an armed wheel in mode 'timed' has evaluated a batch above its threshold
\* (120 against 50) and has not fired
C30_Witness ==
    /\ w_mode = "timed"
    /\ w_pc = "report"
    /\ w_armedOnce /\ w_readArmed /\ w_evalArmed
    /\ l_pc = "idle"
    /\ SumDir(w_moves, "REL_X") > w_thresh
    /\ w_firesSinceArm = 0
    /\ w_thresh_val = NumVal(0)

(***************************************************************************)
(* Beambreak: the edge of a registration                                   *)
(***************************************************************************)
\* the step in which pig.callback returns a new handle
RegisteringStep == Len(bb_handles') = Len(bb_handles) + 1

\* C27: assign_cb with a manual_trigger registers on that edge and leaves
\* trigger_ud as the constructor set it, so that a later assign_cb without
\* manual_trigger registers on the edge of the constructor.
C27_OverrideLeavesDefaultEdge ==
    [][/\ bb_trigger_ud' = bb_trigger_ud
       /\ RegisteringStep =>
             bb_handles'[Len(bb_handles')].edge =
                 IF bb_call.manual = "none" THEN bb_trigger_ud ELSE bb_call.manual]_vars

\* after a call that registered on the overriding edge 'B', a call without
\* manual_trigger has registered callback_fn on the edge of the constructor
C27_Witness ==
    /\ bb_pc = "idle"
    /\ Len(bb_handles) >= 2
    /\ bb_handles[1].edge = "B"
    /\ bb_trigger_ud # "B"
    /\ bb_last.op = "assign_cb"
    /\ bb_last.manual = "none"
    /\ ~bb_last.raised
    /\ bb_handles[Len(bb_handles)] = [fn |-> "callback_fn", edge |-> bb_trigger_ud]

(***************************************************************************)
(* LED_RGB: the end of a series                                            *)
(***************************************************************************)
\* C28: every series thread hands the LED back: once no series thread is
\* left on a connected LED, flash_block is set again, whatever colours and
\* durations the series were started with.
C28_SeriesHandsBack ==
    (ActiveTasks = {} /\ led_pig = "connected") => flash_block

\* C23: flash(total_duration, frequency, colors) hands color_series the colours
\* repeated floor(total_duration * frequency / 1000) times, each step lasting
\* 1000 / frequency ms; flash(1000, 20, [A, B]) hands 20 pairs of 50 ms steps
C23_FlashRepeatsFloorTimes ==
    f_pc = "handed" =>
        /\ f_args.colors = Repeat(f_colors, (f_duration * f_frequency) \div 1000)
        /\ f_args.duration.kind = "num"
        /\ (1000 % f_frequency = 0) =>
               (f_args.whole /\ f_args.duration.val = 1000 \div f_frequency)

\* C23, the example of the claim: 20 pairs, 40 steps, of 50 ms
C23_ExampleHolds ==
    (f_pc = "handed" /\ f_duration = 1000 /\ f_frequency = 20) =>
        (Len(f_args.colors) = 40 /\ f_args.whole /\ f_args.duration.val = 50)

\* C23, the step duration alone
C23_StepDurationExact ==
    f_pc = "handed" => (f_args.whole /\ f_args.duration.val = 1000 \div f_frequency)

====
